---- MODULE Spec2Model ----
(***************************************************************************)
(* Daily checklist: a model of the record store and the today-view         *)
(* handlers of app.js (IndexedDB object store 'dailyData', keyPath 'date') *)
(* and of the service worker's asset cache (install / activate / fetch).   *)
(*                                                                         *)
(* Text is a sequence of one-character strings; the empty string is <<>>.  *)
(* The JavaScript value null of currentTaskId is written 0, undefined      *)
(* results of a lookup are written as the empty sequence.                  *)
(***************************************************************************)
EXTENDS Integers, Sequences, FiniteSets, TLC

\* ------------------------------------------------------------------ bounds

\* Number of calendar days the clock runs through, starting at Epoch.
MaxDays == 3

\* Number of user events on the today view (checkbox, note modal) in a run.
MaxOps == 3

\* The today-view handlers (handleTaskToggle, saveNote) in flight at once: two
\* invocations, so that any two of them can overlap.
Slots == {1, 2}

\* The tasks whose checkbox or note button the user touches.
TouchedTasks == {1, 2}

\* What the note textarea holds when Save is clicked.
NoteTexts == { <<>>, <<"a">>, <<" ", "a">>, <<"a", " ">>, <<" ">> }

\* The first day of the run: 1 January 2025 (a JavaScript Date: month is 0-based).
Epoch == [year |-> 2025, month |-> 0, date |-> 1]

\* ------------------------------------------------------------ fixed tasks

DAILY_TASKS == << [id |-> 1, name |-> "Read technical paper"],
                 [id |-> 2, name |-> "Read technical book"],
                 [id |-> 3, name |-> "Read any book"],
                 [id |-> 4, name |-> "Run"],
                 [id |-> 5, name |-> "Strength training"],
                 [id |-> 6, name |-> "Reflection (daily gospel digest)"],
                 [id |-> 7, name |-> "Coding (side projects)"] >>

TaskIds == { DAILY_TASKS[i].id : i \in 1..Len(DAILY_TASKS) }

\* ------------------------------------------------------------------ text

WhiteSpace == {" "}

RECURSIVE TrimStart(_)
TrimStart(s) ==
    IF s # <<>> /\ Head(s) \in WhiteSpace THEN TrimStart(Tail(s)) ELSE s

RECURSIVE TrimEnd(_)
TrimEnd(s) ==
    IF s # <<>> /\ s[Len(s)] \in WhiteSpace
    THEN TrimEnd(SubSeq(s, 1, Len(s) - 1))
    ELSE s

\* trimStart() in the place of trim()
TrimLeadingOnly(s) == TrimStart(s)

\* String.prototype.trim
Trim(s) == TrimEnd(TrimStart(s))

\* ------------------------------------------------------------------ dates

Digits == <<"0", "1", "2", "3", "4", "5", "6", "7", "8", "9">>

\* String(n) for a natural number n
RECURSIVE NumToString(_)
NumToString(n) ==
    IF n < 10 THEN << Digits[n + 1] >>
    ELSE NumToString(n \div 10) \o << Digits[(n % 10) + 1] >>

\* s.padStart(2, '0')
PadStart2(s) == IF Len(s) < 2 THEN <<"0">> \o s ELSE s

\* The Date the clock shows on day n of the run (all days lie in Epoch's month).
DateOfDay(n) == [Epoch EXCEPT !.date = Epoch.date + n]

\* `${year}-${month}-${day}` of a Date
FormatDate(d) ==
    NumToString(d.year) \o <<"-">> \o PadStart2(NumToString(d.month + 1))
        \o <<"-">> \o PadStart2(NumToString(d.date))

\* The code unit order of the characters of a date string ('-' sorts before digits).
CharRank(c) ==
    IF c = "-" THEN 0 ELSE CHOOSE i \in 1..10 : Digits[i] = c

\* a.localeCompare(b) on date strings: negative, zero or positive
RECURSIVE localeCompare(_, _)
localeCompare(a, b) ==
    IF a = <<>> /\ b = <<>> THEN 0
    ELSE IF a = <<>> THEN -1
    ELSE IF b = <<>> THEN 1
    ELSE IF CharRank(Head(a)) < CharRank(Head(b)) THEN -1
    ELSE IF CharRank(Head(a)) > CharRank(Head(b)) THEN 1
    ELSE localeCompare(Tail(a), Tail(b))

\* ------------------------------------------------------------ state

VARIABLES
    clock,          \* the day of the run the system clock shows (0-based)
    store,          \* object store 'dailyData': records in key (date) order
    txq,            \* pending IndexedDB transactions, in creation order
    handlers,       \* the today-view handlers in flight
    currentTaskId,  \* task whose note modal is open, 0 for null
    rendered,       \* the record last given to renderTasks
    checked,        \* the checked property of the checkbox of each task
    lastRead,       \* what a read of the views has just returned to its caller
    nops,           \* user events so far
    lastPut,        \* history: per date key, the records put successfully, last first
    expected,       \* history: the updates of the finished saves, applied one by one
    outcome,        \* history: how the handler that has just ended did so
    alone           \* history: the handler called last, when no other event
                    \* of the page has run next to it since it was called

appVars == << clock, store, txq, handlers, currentTaskId, rendered, checked,
              lastRead, nops, lastPut, expected, outcome, alone >>

\* The service worker runs in a context of its own.
VARIABLES
    swState,        \* the worker: parsed, installing, installed, activating,
                    \* activated, or redundant (its install failed)
    caches,         \* CacheStorage: the caches [name, entries], in creation order
    addAllBatch,    \* install: the responses cache.addAll has fetched so far
    toDelete,       \* activate: the caches whose caches.delete is under way
    online,         \* whether the network can be reached
    serverVersion,  \* the version of the files the server serves
    fetching,       \* intercepted requests that wait for the network
    pendingPuts,    \* cache.put calls of the fetch listener that have not run yet
    lastResponse,   \* what the fetch listener last responded with
    installedResponse, \* history: the response cached for each path at install
    priorCaches     \* history: the caches that were there when the worker was registered

swVars == << swState, caches, addAllBatch, toDelete, online, serverVersion,
             fetching, pendingPuts, lastResponse, installedResponse, priorCaches >>

vars == << appVars, swVars >>

\* ------------------------------------------------------------ records

\* The keys the run can produce, and the key of the day the clock shows.
getTodayDateString(c) == FormatDate(DateOfDay(c))

AllDates == { getTodayDateString(n) : n \in 0..(MaxDays - 1) }

\* A default record whose tasks all start completed.
DefaultDataAllDone(dateString) ==
    [ date  |-> dateString,
      tasks |-> [ id \in TaskIds |-> [completed |-> TRUE, note |-> <<>>] ] ]

\* The record loadDataForDate synthesizes for a key that is not in the store.
DefaultData(dateString) ==
    [ date  |-> dateString,
      tasks |-> [ id \in TaskIds |-> [completed |-> FALSE, note |-> <<>>] ] ]

\* ------------------------------------------- object store (keyPath 'date')

\* store.get(key): the record under the key, or nothing (undefined)
IDBGet(s, key) == SelectSeq(s, LAMBDA r : r.date = key)

\* Where a new key goes so that the records stay in key order.
InsertAt(s, key) ==
    Cardinality({ i \in 1..Len(s) : localeCompare(s[i].date, key) < 0 }) + 1

\* A put into a store that has no key path: the record is added at the end.
IDBPutNoKeyPath(s, r) == Append(s, r)

\* store.put(r) on a store whose key is r.date: replace the record under the
\* key, or add the record at its place in key order.
IDBPut(s, r) ==
    IF \E i \in 1..Len(s) : s[i].date = r.date
    THEN [ i \in 1..Len(s) |-> IF s[i].date = r.date THEN r ELSE s[i] ]
    ELSE LET k == InsertAt(s, r.date)
         IN  SubSeq(s, 1, k - 1) \o <<r>> \o SubSeq(s, k, Len(s))

\* store.getAll(): every record, in key order
IDBGetAll(s) == s

\* ------------------------------------------------------- data functions

\* loadDataForDate resolving with the default record whatever the store holds.
loadDataForDateDefaultOnly(s, dateString) == DefaultData(dateString)

\* What loadDataForDate resolves with when the get request succeeds.
loadDataForDate(s, dateString) ==
    LET data == IDBGet(s, dateString)
    IN  IF data = <<>> THEN DefaultData(dateString) ELSE data[1]

loadTodayData(s, c) == loadDataForDate(s, getTodayDateString(c))

\* saveData resolving on the error event too.
saveDataAlwaysResolves(requestEvent) == "resolve"

\* How the promise of saveData settles on the put request's event.
saveData(requestEvent) ==
    IF requestEvent = "success" THEN "resolve" ELSE "reject"

\* The comparator with its arguments exchanged: oldest first.
HistoryOrderAscending(a, b) == localeCompare(a.date, b.date)

\* (a, b) => b.date.localeCompare(a.date)
HistoryOrder(a, b) == localeCompare(b.date, a.date)

\* Array.prototype.sort with the comparator HistoryOrder (stable): insertion sort
RECURSIVE SortInsert(_, _)
SortInsert(x, sorted) ==
    IF sorted = <<>> THEN <<x>>
    ELSE IF HistoryOrder(x, Head(sorted)) < 0 THEN <<x>> \o sorted
    ELSE <<Head(sorted)>> \o SortInsert(x, Tail(sorted))

RECURSIVE Sort(_)
Sort(seq) ==
    IF seq = <<>> THEN <<>>
    ELSE SortInsert(seq[Len(seq)], Sort(SubSeq(seq, 1, Len(seq) - 1)))

\* What getAllHistoryData resolves with: every record but today's, newest first.
getAllHistoryData(s, todayDate) ==
    Sort(SelectSeq(IDBGetAll(s), LAMBDA item : item.date # todayDate))

\* getAllData resolving with the newest record alone.
getAllDataNewestOnly(s) == IF s = <<>> THEN <<>> ELSE << s[Len(s)] >>

\* What getAllData resolves with.
getAllData(s) == IDBGetAll(s)

\* ------------------------------------------------------- today view

\* A handler slot that runs nothing.
IdleHandler ==
    [ pc |-> "idle", kind |-> "none", taskId |-> 0, isCompleted |-> FALSE,
      noteText |-> <<>>, dateString |-> <<>>, data |-> DefaultData(<<>>),
      target |-> 0 ]

\* The toggle writing a tasks object that holds the toggled task alone.
SetCompletedAlone(data, taskId, isCompleted) ==
    [data EXCEPT !.tasks = [ id \in {taskId} |->
                               [completed |-> isCompleted, note |-> <<>>] ]]

\* data.tasks[taskId].completed = isCompleted
SetCompleted(data, taskId, isCompleted) ==
    [data EXCEPT !.tasks[taskId].completed = isCompleted]

\* A saveNote that writes a new entry for the task: the note, not completed.
SetNoteFreshEntry(data, taskId, noteText) ==
    [data EXCEPT !.tasks[taskId] = [completed |-> FALSE, note |-> noteText]]

\* data.tasks[currentTaskId].note = noteText
SetNote(data, taskId, noteText) ==
    [data EXCEPT !.tasks[taskId].note = noteText]

\* updateProgress(data): the count the progress text and bar show
updateProgress(data) ==
    Cardinality({ id \in TaskIds : data.tasks[id].completed })

\* A renderTasks that draws the checklist with no task completed.
renderTasksBlank(data) == DefaultData(data.date)

\* renderTasks(data): what the checklist shows from then on
renderTasks(data) == data

\* checkbox.checked = taskData.completed, for each task
renderCheckboxes(data) == [ id \in TaskIds |-> data.tasks[id].completed ]

\* A read-only transaction runs once no read-write transaction created before
\* it is pending; a read-write transaction runs once it is the oldest pending.
CanRun(h, mode) ==
    \E i \in 1..Len(txq) :
        /\ txq[i] = [h |-> h, mode |-> mode]
        /\ IF mode = "readonly"
           THEN \A j \in 1..(i - 1) : txq[j].mode = "readonly"
           ELSE i = 1

Dequeue(h) == SelectSeq(txq, LAMBDA t : t.h # h)

\* The update a handler made to the record it loaded.
UpdateOf(hd, rec) ==
    IF hd.kind = "toggle"
    THEN SetCompleted(rec, hd.target, hd.isCompleted)
    ELSE SetNote(rec, hd.target, hd.noteText)

historyVars == << lastPut, expected >>

\* How the invocation that has just ended did so: the event of its put request ("none" when it made
\* no put), how the promise of saveData settled, and what the handler did last.
NoOutcome == [put |-> "none", promise |-> "none", end |-> "none"]

\* No read of the views has just returned.
NoRead == [op |-> "none", arg |-> <<>>, result |-> <<>>]

\* No handler is in flight.
AllIdle == \A h \in Slots : handlers[h].pc = "idle"

\* An invocation takes the first slot that runs nothing.
FreeSlot(h) ==
    /\ handlers[h].pc = "idle"
    /\ \A g \in 1..(h - 1) : handlers[g].pc # "idle"

\* The user clicks the checkbox of a task, its change listener calls
\* handleTaskToggle(task.id, this.checked): handleTaskToggle up to its first await.
handleTaskToggle(h, taskId) ==
    /\ nops < MaxOps
    /\ FreeSlot(h)
    /\ checked' = [checked EXCEPT ![taskId] = ~checked[taskId]]
    /\ handlers' = [handlers EXCEPT ![h] =
          [ IdleHandler EXCEPT !.pc = "loading", !.kind = "toggle",
                               !.taskId = taskId, !.isCompleted = checked'[taskId],
                               !.dateString = getTodayDateString(clock) ] ]
    /\ txq' = Append(txq, [h |-> h, mode |-> "readonly"])
    /\ nops' = nops + 1
    /\ lastRead' = NoRead
    /\ outcome' = NoOutcome
    /\ UNCHANGED << clock, store, currentTaskId, rendered,
                    historyVars >>
    /\ alone' = IF AllIdle THEN {h} ELSE {}
    /\ UNCHANGED swVars

\* The Save button of the note modal is clicked: saveNote up to its first await.
saveNote(h, text) ==
    /\ nops < MaxOps
    /\ FreeSlot(h)
    /\ currentTaskId # 0
    /\ handlers' = [handlers EXCEPT ![h] =
          [ IdleHandler EXCEPT !.pc = "loading", !.kind = "note",
                               !.taskId = currentTaskId, !.noteText = Trim(text),
                               !.dateString = getTodayDateString(clock) ] ]
    /\ txq' = Append(txq, [h |-> h, mode |-> "readonly"])
    /\ nops' = nops + 1
    /\ lastRead' = NoRead
    /\ outcome' = NoOutcome
    /\ UNCHANGED << clock, store, currentTaskId, rendered, checked,
                    historyVars >>
    /\ alone' = IF AllIdle THEN {h} ELSE {}
    /\ UNCHANGED swVars

\* The catch block of a handler: the failure is reported with alert().
Catch(h, putEvent, promise) ==
    /\ handlers' = [handlers EXCEPT ![h] = IdleHandler]
    /\ outcome' = [put |-> putEvent, promise |-> promise, end |-> "alerted"]

\* The get request of loadTodayData ends and the handler goes on to its
\* second await: it changes the record it was given and calls saveData.
LoadSettled(h, requestEvent) ==
    /\ handlers[h].pc = "loading"
    /\ CanRun(h, "readonly")
    /\ LET hd     == handlers[h]
           data   == loadDataForDate(store, hd.dateString)
           target == IF hd.kind = "toggle" THEN hd.taskId ELSE currentTaskId
       IN  IF requestEvent = "success" /\ target \in DOMAIN data.tasks
           THEN /\ handlers' = [handlers EXCEPT ![h] =
                      [ hd EXCEPT !.pc = "saving", !.target = target,
                          !.data = UpdateOf([hd EXCEPT !.target = target], data) ] ]
                /\ txq' = Append(Dequeue(h), [h |-> h, mode |-> "readwrite"])
                /\ outcome' = NoOutcome
           ELSE \* the request failed, or data.tasks[null] is undefined
                /\ Catch(h, "none", "none")
                /\ txq' = Dequeue(h)
    /\ lastRead' = NoRead
    /\ UNCHANGED << clock, store, currentTaskId, rendered, checked, nops,
                    historyVars >>
    /\ UNCHANGED alone
    /\ UNCHANGED swVars

\* The put request of saveData ends and the handler runs to its end.
SaveSettled(h, requestEvent) ==
    /\ handlers[h].pc = "saving"
    /\ CanRun(h, "readwrite")
    /\ LET hd == handlers[h]
       IN  /\ store' = IF requestEvent = "success" THEN IDBPut(store, hd.data)
                       ELSE store
           /\ lastPut' = IF requestEvent = "success"
                         THEN [lastPut EXCEPT ![hd.data.date] = <<hd.data>>]
                         ELSE lastPut
           /\ expected' = IF requestEvent = "success"
                          THEN [expected EXCEPT ![hd.data.date] = UpdateOf(hd, @)]
                          ELSE expected
           /\ IF saveData(requestEvent) = "resolve"
              THEN /\ currentTaskId' = IF hd.kind = "note" THEN 0
                                       ELSE currentTaskId    \* closeNoteModal()
                   /\ rendered' = renderTasks(hd.data)
                   /\ checked' = renderCheckboxes(hd.data)
                   /\ handlers' = [handlers EXCEPT ![h] = IdleHandler]
                   /\ outcome' = [put |-> requestEvent, promise |-> "resolve", end |-> "rendered"]
              ELSE /\ Catch(h, requestEvent, "reject")
                   /\ UNCHANGED << currentTaskId, rendered, checked >>
    /\ txq' = Dequeue(h)
    /\ lastRead' = NoRead
    /\ UNCHANGED << clock, nops >>
    /\ UNCHANGED alone
    /\ UNCHANGED swVars

\* The note button of a task is clicked.
openNoteModal(taskId) ==
    /\ nops < MaxOps
    /\ currentTaskId' = taskId
    /\ nops' = nops + 1
    /\ lastRead' = NoRead
    /\ outcome' = NoOutcome
    /\ UNCHANGED << clock, store, txq, handlers, rendered, checked,
                    historyVars >>
    /\ alone' = {}
    /\ UNCHANGED swVars

\* Cancel, or a click on the backdrop of the note modal.
closeNoteModal ==
    /\ nops < MaxOps
    /\ currentTaskId' = 0
    /\ nops' = nops + 1
    /\ lastRead' = NoRead
    /\ outcome' = NoOutcome
    /\ UNCHANGED << clock, store, txq, handlers, rendered, checked,
                    historyVars >>
    /\ alone' = {}
    /\ UNCHANGED swVars

\* ------------------------------------------------------- other views

\* The reads of the other views are taken in one step, at a moment when no
\* transaction of the today view is pending: what they return depends on the
\* store and the clock alone, and every store content is met at such a moment.

\* getDateRange(days): the keys of the days up to today, oldest first. The
\* days before Epoch are left out: the run writes none of them.
getDateRange(c) == [ i \in 1..(c + 1) |-> getTodayDateString(i - 1) ]

\* Math.round(n / d * 100) for 0 <= n and 0 < d: the nearest integer, a
\* half rounded up.
MathRoundPercent(n, d) == (200 * n + d) \div (2 * d)

\* The body of the loop with the missed days counted on every day, active
\* or not.
StatsStepMissedAnyDay(acc, dayData, taskId) ==
    LET taskData   == dayData.tasks[taskId]
        hasAnyTask == \E t \in TaskIds : dayData.tasks[t].completed
    IN  [ completedDays   |-> acc.completedDays + (IF taskData.completed THEN 1 ELSE 0),
          totalActiveDays |-> acc.totalActiveDays + (IF hasAnyTask THEN 1 ELSE 0),
          missedDays      |-> acc.missedDays + (IF ~taskData.completed THEN 1 ELSE 0) ]

\* renderTaskStats: the body of allData.forEach for one day and one task.
StatsStep(acc, dayData, taskId) ==
    LET taskData   == dayData.tasks[taskId]
        hasAnyTask == \E t \in TaskIds : dayData.tasks[t].completed
    IN  [ completedDays   |-> acc.completedDays + (IF taskData.completed THEN 1 ELSE 0),
          totalActiveDays |-> acc.totalActiveDays + (IF hasAnyTask THEN 1 ELSE 0),
          missedDays      |-> acc.missedDays +
                                (IF hasAnyTask /\ ~taskData.completed THEN 1 ELSE 0) ]

\* allData.forEach(dayData => ...), from the first record to the last
RECURSIVE StatsLoop(_, _, _)
StatsLoop(acc, allData, taskId) ==
    IF allData = <<>> THEN acc
    ELSE StatsLoop(StatsStep(acc, Head(allData), taskId), Tail(allData), taskId)

\* renderTaskStats: the numbers on the card of one task.
renderTaskStats(allData, taskId) ==
    LET counts == StatsLoop([completedDays |-> 0, totalActiveDays |-> 0, missedDays |-> 0],
                            allData, taskId)
    IN  [ completedDays   |-> counts.completedDays,
          totalActiveDays |-> counts.totalActiveDays,
          missedDays      |-> counts.missedDays,
          successRate     |-> IF counts.totalActiveDays > 0
                              THEN MathRoundPercent(counts.completedDays,
                                                    counts.totalActiveDays)
                              ELSE 0 ]

\* A cell click that saves the record it shows, the default record too.
HeatmapCellClickSaving(dateString) ==
    /\ txq = <<>>
    /\ \E i \in 1..Len(getDateRange(clock)) : getDateRange(clock)[i] = dateString
    /\ lastRead' = [ op |-> "loadDataForDate", arg |-> dateString,
                     result |-> << loadDataForDate(store, dateString) >> ]
    /\ store' = IDBPut(store, loadDataForDate(store, dateString))
    /\ outcome' = NoOutcome
    /\ UNCHANGED << clock, txq, handlers, currentTaskId, rendered, checked, nops,
                    historyVars, alone >>
    /\ UNCHANGED swVars

\* A heatmap cell is clicked: loadDataForDate(dateString), then showDayDetail.
HeatmapCellClick(dateString) ==
    /\ txq = <<>>
    /\ \E i \in 1..Len(getDateRange(clock)) : getDateRange(clock)[i] = dateString
    /\ lastRead' = [ op |-> "loadDataForDate", arg |-> dateString,
                     result |-> << loadDataForDate(store, dateString) >> ]
    /\ outcome' = NoOutcome
    /\ UNCHANGED << clock, store, txq, handlers, currentTaskId, rendered, checked, nops,
                    historyVars >>
    /\ UNCHANGED alone
    /\ UNCHANGED swVars

\* The History tab: renderHistory awaits getAllHistoryData.
renderHistory ==
    /\ txq = <<>>
    /\ lastRead' = [ op |-> "getAllHistoryData",
                     arg |-> getTodayDateString(clock),
                     result |-> getAllHistoryData(store, getTodayDateString(clock)) ]
    /\ outcome' = NoOutcome
    /\ UNCHANGED << clock, store, txq, handlers, currentTaskId, rendered, checked, nops,
                    historyVars >>
    /\ UNCHANGED alone
    /\ UNCHANGED swVars

\* The Progress tab: renderHeatmap and renderTaskStats await getAllData.
renderHeatmap ==
    /\ txq = <<>>
    /\ lastRead' = [ op |-> "getAllData", arg |-> <<>>,
                     result |-> getAllData(store) ]
    /\ outcome' = NoOutcome
    /\ UNCHANGED << clock, store, txq, handlers, currentTaskId, rendered, checked, nops,
                    historyVars >>
    /\ UNCHANGED alone
    /\ UNCHANGED swVars

\* Midnight passes.
NextDay ==
    /\ clock + 1 < MaxDays
    /\ clock' = clock + 1
    /\ lastRead' = NoRead
    /\ outcome' = NoOutcome
    /\ UNCHANGED << store, txq, handlers, currentTaskId, rendered, checked,
                    nops, historyVars >>
    /\ UNCHANGED alone
    /\ UNCHANGED swVars

\* ------------------------------------------------------- service worker

CACHE_NAME == "daily-checklist-v1"

FILES_TO_CACHE == << "/", "/index.html", "/style.css", "/app.js", "/manifest.json" >>

ManifestPaths == { FILES_TO_CACHE[i] : i \in 1..Len(FILES_TO_CACHE) }

\* A cache that a worker of an earlier version of the file left behind.
OldCacheName == "daily-checklist-v0"

\* A cache that is not of this application: CacheStorage is shared by the origin.
OtherCacheName == "other-app-v3"

\* Requests of the page that are not in the manifest: a file of the same
\* origin and a file of another origin.
CrossOrigin == { "https://cdn.example/lib.js" }

OtherRequests == { "/icon.png" } \cup CrossOrigin

Requests == ManifestPaths \cup OtherRequests

\* The last version of its files the server gets to serve.
MaxVersion == 2

Response(status, type, url, version) ==
    [ status |-> status, type |-> type, body |-> [url |-> url, version |-> version] ]

\* What the network answers to a request while it can be reached: the file or
\* a 404 for the own origin, a CORS or an opaque response for another origin.
NetworkResponses(request, version) ==
    IF request \in CrossOrigin
    THEN { Response(200, "cors", request, version),
           Response(0, "opaque", request, version) }
    ELSE { Response(200, "basic", request, version),
           Response(404, "basic", request, version) }

\* cache.addAll taking every response, whatever its status.
ResponseOkAlways(response) == TRUE

\* response.ok, which cache.addAll requires of every response
ResponseOk(response) == response.status >= 200 /\ response.status <= 299

CacheNamesOf(cs) == { cs[i].name : i \in 1..Len(cs) }

\* caches.open(name): the cache of that name, created when there is none
CachesOpen(cs, name) ==
    IF name \in CacheNamesOf(cs) THEN cs
    ELSE Append(cs, [name |-> name, entries |-> {}])

\* cache.put(request, response) on the entries of one cache
EntriesPut(entries, request, response) ==
    { e \in entries : e.request # request }
        \cup { [request |-> request, response |-> response] }

\* cache.put(request, response) on the cache of that name
CachePut(cs, name, request, response) ==
    [ i \in 1..Len(cs) |->
        IF cs[i].name = name
        THEN [cs[i] EXCEPT !.entries = EntriesPut(@, request, response)]
        ELSE cs[i] ]

\* An addAll that is fulfilled when the first response of the batch is put.
CachePutFirst(cs, name, batch) ==
    IF batch = <<>> THEN cs
    ELSE CachePut(cs, name, Head(batch).body.url, Head(batch))

\* cache.addAll: every response of the batch is put, or none is
RECURSIVE CachePutAll(_, _, _)
CachePutAll(cs, name, batch) ==
    IF batch = <<>> THEN cs
    ELSE CachePutAll(CachePut(cs, name, Head(batch).body.url, Head(batch)),
                     name, Tail(batch))

\* A caches.delete that is fulfilled and deletes nothing.
CachesDeleteNone(cs, name) == cs

\* caches.delete(name)
CachesDelete(cs, name) == SelectSeq(cs, LAMBDA c : c.name # name)

\* A lookup that finds nothing, as of a cache that is never consulted.
CachesMatchNever(cs, request) == <<>>

\* caches.match(request): the response of the first cache, in creation
\* order, that has the request; nothing (undefined) when no cache has it.
CachesMatch(cs, request) ==
    LET has == { i \in 1..Len(cs) : \E e \in cs[i].entries : e.request = request }
    IN  IF has = {} THEN <<>>
        ELSE LET first == CHOOSE i \in has : \A j \in has : i <= j
                 e     == CHOOSE x \in cs[first].entries : x.request = request
             IN  << e.response >>

\* The activate listener deleting the cache of the version before only.
ShouldDeletePrevious(cacheName) == cacheName = OldCacheName

\* The comparison of the activate listener inverted: === in the place of !==.
ShouldDeleteCurrent(cacheName) == cacheName = CACHE_NAME

\* cacheName !== CACHE_NAME
ShouldDelete(cacheName) == cacheName # CACHE_NAME

\* What the deletions of the activate listener leave of the caches, once
\* Promise.all is fulfilled.
Activate(cs) == SelectSeq(cs, LAMBDA c : ~ShouldDelete(c.name))

\* A test of the response that leaves the type of the response out.
CacheableAnyType(response) == response.status = 200

\* A test of the response that lets no response into the cache.
CacheableNever(response) == FALSE

\* !(!response || response.status !== 200 || response.type !== 'basic')
Cacheable(response) == response.status = 200 /\ response.type = "basic"

NoResponse == [request |-> "", source |-> "init", response |-> <<>>, online |-> TRUE]

\* The catch handler of the fetch listener with an offline page: it answers
\* with the page of the cache when the network has failed.
FetchFailedOfflinePage(cs, request) ==
    [ request |-> request, source |-> "cache",
      response |-> CachesMatch(cs, "/"), online |-> FALSE ]

\* .catch(function() { console.log(...) }): the handler returns nothing, and
\* respondWith is given undefined.
FetchFailed(cs, request) ==
    [ request |-> request, source |-> "none", response |-> <<>>, online |-> FALSE ]

\* install: caches.open(CACHE_NAME), then cache.addAll(FILES_TO_CACHE) starts.
InstallEvent ==
    /\ swState = "parsed"
    /\ swState' = "installing"
    /\ caches' = CachesOpen(caches, CACHE_NAME)
    /\ addAllBatch' = <<>>
    /\ UNCHANGED << toDelete, online, serverVersion, fetching, pendingPuts,
                    lastResponse, installedResponse >>
    /\ UNCHANGED priorCaches
    /\ UNCHANGED appVars

\* cache.addAll fetches the next file. A file that cannot be fetched, or whose
\* response is not ok, rejects addAll: nothing is put, the promise given to
\* waitUntil rejects, skipWaiting is not called and the worker is discarded.
AddAllFetch ==
    /\ swState = "installing"
    /\ Len(addAllBatch) < Len(FILES_TO_CACHE)
    /\ LET request == FILES_TO_CACHE[Len(addAllBatch) + 1]
       IN  \/ /\ online
              /\ \E response \in NetworkResponses(request, serverVersion) :
                    IF ResponseOk(response)
                    THEN /\ addAllBatch' = Append(addAllBatch, response)
                         /\ UNCHANGED swState
                    ELSE /\ addAllBatch' = <<>>
                         /\ swState' = "redundant"
           \/ /\ ~online
              /\ addAllBatch' = <<>>
              /\ swState' = "redundant"
    /\ UNCHANGED << caches, toDelete, online, serverVersion, fetching,
                    pendingPuts, lastResponse, installedResponse >>
    /\ UNCHANGED priorCaches
    /\ UNCHANGED appVars

\* Every file was fetched: addAll puts them all, then self.skipWaiting().
AddAllDone ==
    /\ swState = "installing"
    /\ Len(addAllBatch) = Len(FILES_TO_CACHE)
    /\ caches' = CachePutAll(CachesOpen(caches, CACHE_NAME), CACHE_NAME, addAllBatch)
    /\ installedResponse' =
          [ path \in ManifestPaths |->
              << (CHOOSE r \in { addAllBatch[i] : i \in 1..Len(addAllBatch) } :
                     r.body.url = path) >> ]
    /\ addAllBatch' = <<>>
    /\ swState' = "installed"
    /\ UNCHANGED << toDelete, online, serverVersion, fetching, pendingPuts,
                    lastResponse >>
    /\ UNCHANGED priorCaches
    /\ UNCHANGED appVars

\* activate: caches.keys(), then caches.delete for every name that is not
\* CACHE_NAME; the deletions run side by side.
ActivateEvent ==
    /\ swState = "installed"
    /\ swState' = "activating"
    /\ toDelete' = { name \in CacheNamesOf(caches) : ShouldDelete(name) }
    /\ UNCHANGED << caches, addAllBatch, online, serverVersion, fetching,
                    pendingPuts, lastResponse, installedResponse >>
    /\ UNCHANGED priorCaches
    /\ UNCHANGED appVars

\* One caches.delete is done.
DeleteDone(cacheName) ==
    /\ swState = "activating"
    /\ cacheName \in toDelete
    /\ caches' = CachesDelete(caches, cacheName)
    /\ toDelete' = toDelete \ {cacheName}
    /\ UNCHANGED << swState, addAllBatch, online, serverVersion, fetching,
                    pendingPuts, lastResponse, installedResponse >>
    /\ UNCHANGED priorCaches
    /\ UNCHANGED appVars

\* clients.claim() called next to the deletions, not in the then of
\* Promise.all: the worker is active while caches are still being deleted.
ClientsClaimEarly ==
    /\ swState = "activating"
    /\ swState' = "activated"
    /\ UNCHANGED << caches, addAllBatch, toDelete, online, serverVersion,
                    fetching, pendingPuts, lastResponse, installedResponse >>
    /\ UNCHANGED priorCaches
    /\ UNCHANGED appVars

\* Promise.all is fulfilled: self.clients.claim(), the worker is active.
ClientsClaim ==
    /\ swState = "activating"
    /\ toDelete = {}
    /\ swState' = "activated"
    /\ UNCHANGED << caches, addAllBatch, toDelete, online, serverVersion,
                    fetching, pendingPuts, lastResponse, installedResponse >>
    /\ UNCHANGED priorCaches
    /\ UNCHANGED appVars

\* fetch: the active worker intercepts a request of the page and looks it up
\* with caches.match; a hit is the response, a miss goes to the network.
FetchEvent(request) ==
    /\ swState = "activated"
    /\ request \notin fetching
    /\ LET cached == CachesMatch(caches, request)
       IN  IF cached # <<>>
           THEN /\ lastResponse' = [ request |-> request, source |-> "cache",
                                     response |-> cached, online |-> online ]
                /\ UNCHANGED fetching
           ELSE /\ fetching' = fetching \cup {request}
                /\ UNCHANGED lastResponse
    /\ UNCHANGED << swState, caches, addAllBatch, toDelete, online,
                    serverVersion, pendingPuts, installedResponse >>
    /\ UNCHANGED priorCaches
    /\ UNCHANGED appVars

\* fetch(event.request) settles. A response that is cacheable is cloned and
\* its cache.put is started without being awaited; the response is returned.
\* When the fetch fails the catch handler returns nothing.
NetworkSettles(request) ==
    /\ request \in fetching
    /\ fetching' = fetching \ {request}
    /\ \/ /\ online
          /\ \E response \in NetworkResponses(request, serverVersion) :
                /\ pendingPuts' =
                      IF Cacheable(response)
                      THEN pendingPuts \cup
                               { [request |-> request, response |-> response] }
                      ELSE pendingPuts
                /\ lastResponse' = [ request |-> request, source |-> "network",
                                     response |-> <<response>>, online |-> TRUE ]
       \/ /\ ~online
          /\ lastResponse' = FetchFailed(caches, request)
          /\ UNCHANGED pendingPuts
    /\ UNCHANGED << swState, caches, addAllBatch, toDelete, online,
                    serverVersion, installedResponse >>
    /\ UNCHANGED priorCaches
    /\ UNCHANGED appVars

\* caches.open(CACHE_NAME).then(cache => cache.put(event.request, responseToCache))
PutDone(put) ==
    /\ put \in pendingPuts
    /\ pendingPuts' = pendingPuts \ {put}
    /\ caches' = CachePut(CachesOpen(caches, CACHE_NAME), CACHE_NAME,
                          put.request, put.response)
    /\ UNCHANGED << swState, addAllBatch, toDelete, online, serverVersion,
                    fetching, lastResponse, installedResponse >>
    /\ UNCHANGED priorCaches
    /\ UNCHANGED appVars

\* The server gets a new version of the files.
Deploy ==
    /\ serverVersion < MaxVersion
    /\ serverVersion' = serverVersion + 1
    /\ UNCHANGED << swState, caches, addAllBatch, toDelete, online, fetching,
                    pendingPuts, lastResponse, installedResponse >>
    /\ UNCHANGED priorCaches
    /\ UNCHANGED appVars

\* The network is lost, or comes back.
NetworkChange ==
    /\ online' = ~online
    /\ UNCHANGED << swState, caches, addAllBatch, toDelete, serverVersion,
                    fetching, pendingPuts, lastResponse, installedResponse >>
    /\ UNCHANGED priorCaches
    /\ UNCHANGED appVars

\* ------------------------------------------------------- specification

\* The worker script is registered and no cache exists.
InitWorker ==
    /\ swState = "parsed"
    /\ caches = <<>>
    /\ addAllBatch = <<>>
    /\ toDelete = {}
    /\ online = TRUE
    /\ serverVersion = 1
    /\ fetching = {}
    /\ pendingPuts = {}
    /\ lastResponse = NoResponse
    /\ installedResponse = [path \in ManifestPaths |-> <<>>]
    /\ priorCaches = <<>>

\* The cache an earlier version left: a page and an icon, as served then.
OldCache ==
    [ name |-> OldCacheName,
      entries |-> { [request |-> "/", response |-> Response(200, "basic", "/", 0)],
                    [request |-> "/icon.png",
                     response |-> Response(200, "basic", "/icon.png", 0)] } ]

\* A cache of another name that a script of the same origin left.
OtherCache ==
    [ name |-> OtherCacheName,
      entries |-> { [request |-> "/icon.png",
                     response |-> Response(200, "basic", "/icon.png", 0)] } ]

\* The cache an install of this version left when its addAll was rejected:
\* caches.open had created it and nothing was put.
LeftoverCache == [ name |-> CACHE_NAME, entries |-> {} ]

\* The orders in which caches.keys() can enumerate a set of caches: the order
\* of their creation.
Orderings(S) ==
    { seq \in [1..Cardinality(S) -> S] :
        \A i, j \in 1..Cardinality(S) : i # j => seq[i] # seq[j] }

\* What CacheStorage can hold when the worker is registered.
InitialCaches ==
    UNION { Orderings(S) : S \in SUBSET {OldCache, OtherCache, LeftoverCache} }

\* openDatabase has created the empty store and initApp has rendered today.
InitApp ==
    /\ clock = 0
    /\ store = <<>>
    /\ txq = <<>>
    /\ handlers = [h \in Slots |-> IdleHandler]
    /\ currentTaskId = 0
    /\ rendered = renderTasks(loadTodayData(<<>>, 0))
    /\ checked = renderCheckboxes(loadTodayData(<<>>, 0))
    /\ lastRead = NoRead
    /\ nops = 0
    /\ lastPut = [d \in AllDates |-> <<>>]
    /\ expected = [d \in AllDates |-> DefaultData(d)]
    /\ outcome = NoOutcome
    /\ alone = {}

Init == InitApp /\ InitWorker

Next ==
    \/ \E h \in Slots, t \in TouchedTasks : handleTaskToggle(h, t)
    \/ \E h \in Slots, text \in NoteTexts : saveNote(h, text)
    \/ \E h \in Slots, ev \in {"success", "error"} : LoadSettled(h, ev)
    \/ \E h \in Slots, ev \in {"success", "error"} : SaveSettled(h, ev)
    \/ \E t \in TouchedTasks : openNoteModal(t)
    \/ closeNoteModal
    \/ \E d \in AllDates : HeatmapCellClick(d)
    \/ renderHistory
    \/ renderHeatmap
    \/ NextDay

Spec == Init /\ [][Next]_vars

\* The service worker, first installed or updated over an earlier version.
InitSW ==
    /\ InitApp
    /\ swState = "parsed"
    /\ caches \in InitialCaches
    /\ priorCaches = caches
    /\ addAllBatch = <<>>
    /\ toDelete = {}
    /\ online = TRUE
    /\ serverVersion = 1
    /\ fetching = {}
    /\ pendingPuts = {}
    /\ lastResponse = NoResponse
    /\ installedResponse = [path \in ManifestPaths |-> <<>>]

NextSW ==
    \/ InstallEvent
    \/ AddAllFetch
    \/ AddAllDone
    \/ ActivateEvent
    \/ \E name \in {OldCacheName, OtherCacheName, CACHE_NAME} : DeleteDone(name)
    \/ ClientsClaim
    \/ \E request \in Requests : FetchEvent(request)
    \/ \E request \in Requests : NetworkSettles(request)
    \/ \E put \in pendingPuts : PutDone(put)
    \/ Deploy
    \/ NetworkChange

SpecSW == InitSW /\ [][NextSW]_vars

\* The worker installed first, or over the cache of the version before.
InitSWFair ==
    /\ InitApp
    /\ swState = "parsed"
    /\ caches \in { <<>>, << OldCache >> }
    /\ addAllBatch = <<>>
    /\ toDelete = {}
    /\ online = TRUE
    /\ serverVersion = 1
    /\ fetching = {}
    /\ pendingPuts = {}
    /\ lastResponse = NoResponse
    /\ installedResponse = [path \in ManifestPaths |-> <<>>]
    /\ priorCaches = caches

\* The worker is kept running while a promise reaction of the fetch listener
\* is due: a cache.put that was started is carried out.
SpecSWFair ==
    /\ InitSWFair
    /\ [][NextSW]_vars
    /\ WF_vars(\E put \in pendingPuts : PutDone(put))

\* =================================================================
\* Properties of the record store and the today view (under Spec)
\* =================================================================

\* The dates of a sequence of records, as a set.
DatesOf(records) == { records[i].date : i \in 1..Len(records) }

\* The records a state holds outside the store: what the handlers loaded and
\* changed, what the checklist shows, what a read has just returned.
HeldRecords ==
    { handlers[h].data : h \in { g \in Slots : handlers[g].pc = "saving" } }
        \cup { rendered }
        \cup { lastRead.result[i] : i \in 1..Len(lastRead.result) }

StoredRecords == { store[i] : i \in 1..Len(store) }

D20250101 == <<"2", "0", "2", "5", "-", "0", "1", "-", "0", "1">>
D20250102 == <<"2", "0", "2", "5", "-", "0", "1", "-", "0", "2">>
D20250103 == <<"2", "0", "2", "5", "-", "0", "1", "-", "0", "3">>

\* C1: handleTaskToggle and saveNote invocations on a date never lose an
\* update: once every invocation has finished, the persisted record of each
\* date is the default record with the update of every finished save applied.
C1_NoLostUpdate ==
    AllIdle => \A d \in AllDates : loadDataForDate(store, d) = expected[d]

\* C2: round trip. A date whose last successful put was the record r reads
\* back as r, whatever the store held for the date before that put.
C2_RoundTrip ==
    \A d \in AllDates :
        lastPut[d] # <<>> => loadDataForDate(store, d) = lastPut[d][1]

\* A record was put over an earlier record of the same date.
C2_Witness ==
    \E d \in AllDates :
        /\ lastPut[d] # <<>>
        /\ lastPut[d][1].tasks[1].completed
        /\ lastPut[d][1].tasks[2].completed

\* C3: a read of a date that was never written returns a record of that date
\* with the 7 task ids, each not completed and with the empty note, and the
\* store does not hold the date afterwards.
C3_DefaultForUnwritten ==
    (lastRead.op = "loadDataForDate" /\ lastPut[lastRead.arg] = <<>>) =>
        LET r == lastRead.result[1]
        IN  /\ Len(lastRead.result) = 1
            /\ r.date = lastRead.arg
            /\ DOMAIN r.tasks = 1..7
            /\ \A id \in 1..7 : r.tasks[id] = [completed |-> FALSE, note |-> <<>>]
            /\ lastRead.arg \notin DatesOf(getAllData(store))

\* A day of the past that was skipped is read while other days are stored.
C3_Witness ==
    /\ lastRead.op = "loadDataForDate"
    /\ lastPut[lastRead.arg] = <<>>
    /\ lastRead.arg # getTodayDateString(clock)
    /\ store # <<>>

\* C4: every record persisted, held by a handler, rendered or returned by a
\* read has an entry for each of the task ids 1..7.
C4_AllSevenTasks ==
    \A r \in StoredRecords \cup HeldRecords : DOMAIN r.tasks = 1..7

\* The history view returned stored records.
C4_Witness ==
    /\ lastRead.op = "getAllHistoryData"
    /\ lastRead.result # <<>>
    /\ \E r \in StoredRecords : \E id \in 1..7 : r.tasks[id].completed

\* C5: getAllHistoryData returns exactly the stored records of the dates other
\* than today, each once, in strictly descending order of the date string.
C5_HistoryExcludesTodaySorted ==
    lastRead.op = "getAllHistoryData" =>
        LET h == lastRead.result
        IN  /\ { h[i] : i \in 1..Len(h) } =
                   { r \in StoredRecords : r.date # lastRead.arg }
            /\ \A i \in 1..Len(h) : h[i].date # lastRead.arg
            /\ \A i, j \in 1..Len(h) :
                   i < j => localeCompare(h[i].date, h[j].date) > 0

\* The example of the specification: three days stored, the third is today.
C5_Witness ==
    /\ lastRead.op = "getAllHistoryData"
    /\ lastRead.arg = D20250103
    /\ DatesOf(store) = {D20250101, D20250102, D20250103}
    /\ Len(lastRead.result) = 2
    /\ lastRead.result[1].date = D20250102
    /\ lastRead.result[2].date = D20250101

\* C6: put is idempotent. Putting the record a handler is about to put twice
\* leaves the store as putting it once does, with one record of its date; and
\* putting the record last put for a date once more leaves the store as it is.
C6_PutIdempotent ==
    /\ \A h \in Slots :
           handlers[h].pc = "saving" =>
               LET r    == handlers[h].data
                   once == IDBPut(store, r)
               IN  /\ IDBPut(once, r) = once
                   /\ Cardinality({ i \in 1..Len(once) : once[i].date = r.date }) = 1
    /\ \A d \in AllDates :
           lastPut[d] # <<>> => IDBPut(store, lastPut[d][1]) = store

\* A handler is about to put the very record the store holds for the date.
C6_Witness ==
    \E h \in Slots :
        /\ handlers[h].pc = "saving"
        /\ IDBGet(store, handlers[h].data.date) = << handlers[h].data >>

\* C7: getAllData returns one record for each date that was put, and no
\* other: the record put last for that date.
C7_GetAllIsEveryPut ==
    LET all == getAllData(store)
    IN  /\ DatesOf(all) = { d \in AllDates : lastPut[d] # <<>> }
        /\ Len(all) = Cardinality(DatesOf(all))
        /\ \A i \in 1..Len(all) : lastPut[all[i].date] = << all[i] >>

\* Two dates are stored, one of them put twice.
C7_Witness ==
    /\ lastRead.op = "getAllData"
    /\ Len(lastRead.result) >= 2
    /\ \E i \in 1..Len(store) :
           store[i].tasks[1].completed /\ store[i].tasks[2].completed

C9_NotesTrimmed ==
    \A r \in StoredRecords : \A id \in DOMAIN r.tasks :
        LET note == r.tasks[id].note
        IN  note # <<>> =>
                (note[1] \notin WhiteSpace /\ note[Len(note)] \notin WhiteSpace)

\* A note that is not empty was saved.
C9_Witness ==
    \E r \in StoredRecords : \E id \in DOMAIN r.tasks : r.tasks[id].note # <<>>

\* =================================================================
\* Properties of the service worker (under SpecSW)
\* =================================================================

\* The entries of the cache of the current version.
CurrentEntries ==
    UNION { caches[i].entries : i \in { j \in 1..Len(caches) : caches[j].name = CACHE_NAME } }

\* C10: after a successful install, a request for a path of the manifest that
\* the worker answers while the network cannot be reached is answered from
\* the cache, with the response that was fetched for the path at install.
C10_OfflineServesInstalled ==
    (lastResponse.request \in ManifestPaths /\ ~lastResponse.online) =>
        /\ lastResponse.source = "cache"
        /\ lastResponse.response # <<>>
        /\ lastResponse.response = installedResponse[lastResponse.request]

\* The page is served offline as installed, after the server moved on and a
\* miss has put a file that is not in the manifest into the cache.
C10_Witness ==
    /\ lastResponse.request = "/"
    /\ ~lastResponse.online
    /\ lastResponse.source = "cache"
    /\ lastResponse.response[1].body.version = 1
    /\ serverVersion = 2
    /\ \E e \in CurrentEntries : e.request = "/icon.png"

\* The worker got past its install: skipWaiting was called.
PastInstall == swState \in {"installed", "activating", "activated"}

\* C11: install is atomic. A worker whose install failed has put nothing in
\* the cache of its version; a worker that got past install has cached a
\* response with a success status for every file of the manifest; and the
\* step of addAll that finds the network unreachable discards the worker
\* (the promise given to waitUntil rejects, skipWaiting is not called) and
\* leaves the caches as they were.
C11_InstallAtomic ==
    /\ [](swState = "redundant" => CurrentEntries = {})
    /\ [](PastInstall =>
            \A path \in ManifestPaths :
                /\ installedResponse[path] # <<>>
                /\ installedResponse[path][1].status \in 200..299)
    /\ [][ (AddAllFetch /\ ~online) =>
             (swState' = "redundant" /\ caches' = caches) ]_vars

\* The install failed after the cache of the version had been opened, next
\* to the cache of an earlier version.
C11_Witness ==
    /\ swState = "redundant"
    /\ ~online
    /\ CacheNamesOf(caches) = {OldCacheName, CACHE_NAME}
    /\ CurrentEntries = {}

\* C12: once the worker is activated the cache named CACHE_NAME is there and
\* no other cache is, whatever caches were there before and in whatever order
\* they were enumerated and deleted; the deletions of an activation run once
\* more would change nothing.
C12_OneGenerationSurvives ==
    swState = "activated" =>
        /\ CacheNamesOf(caches) = {CACHE_NAME}
        /\ Len(caches) = 1
        /\ Activate(caches) = caches

\* The worker was activated over three caches, the one of its own name
\* enumerated before the two others.
C12_Witness ==
    /\ swState = "activated"
    /\ Len(priorCaches) = 3
    /\ priorCaches[1].name = CACHE_NAME
    /\ priorCaches[2].name = OtherCacheName
    /\ priorCaches[3].name = OldCacheName

\* C13: cache hit. When the worker intercepts a request that the cache
\* holds, it responds with the response of the cache, the request is not sent
\* to the network, no put is started and the caches stay as they were.
C13_HitServedFromCache ==
    [][ \A r \in Requests :
          (FetchEvent(r) /\ \E e \in CurrentEntries : e.request = r) =>
              /\ lastResponse'.request = r
              /\ lastResponse'.source = "cache"
              /\ \E e \in CurrentEntries :
                    e.request = r /\ lastResponse'.response = << e.response >>
              /\ fetching' = fetching
              /\ pendingPuts' = pendingPuts
              /\ caches' = caches ]_vars

\* A file that a miss had put in the cache is served from the cache while
\* the server serves a later version of it.
C13_Witness ==
    /\ lastResponse.request = "/icon.png"
    /\ lastResponse.source = "cache"
    /\ lastResponse.response[1].body.version = 1
    /\ serverVersion = 2
    /\ online
    /\ fetching = {}

\* C14: what the worker serves from a cache is an entry of the cache named
\* CACHE_NAME. caches.match looks in every cache of the origin, the oldest
\* first, but the worker intercepts nothing before it is activated, and by
\* then the caches of other names are deleted: an entry that only a cache of
\* another name holds is never served, and a request both hold is served as
\* the cache named CACHE_NAME holds it.
C14_ServedFromCurrentCache ==
    /\ [][ (lastResponse' # lastResponse /\ lastResponse'.source = "cache") =>
             \E e \in CurrentEntries :
                 /\ e.request = lastResponse'.request
                 /\ lastResponse'.response = << e.response >> ]_vars
    /\ [](swState \in {"parsed", "installing", "installed", "activating"} =>
             (lastResponse = NoResponse /\ fetching = {}))

\* A file that only the cache of the earlier version held was asked for: the
\* worker went to the network for it.
C14_Witness ==
    /\ \E i \in 1..Len(priorCaches) : priorCaches[i] = OldCache
    /\ lastResponse.request = "/icon.png"
    /\ lastResponse.source = "network"
    /\ lastResponse.response[1].body.version = 1
    /\ \A e \in CurrentEntries : e.request # "/icon.png"

C16_UncacheableNotStored ==
    /\ [][ \A r \in Requests :
             ( /\ NetworkSettles(r)
               /\ lastResponse'.response # <<>>
               /\ ( \/ lastResponse'.response[1].status # 200
                    \/ lastResponse'.response[1].type # "basic" ) )
             => ( /\ lastResponse'.request = r
                  /\ lastResponse'.response[1] \in NetworkResponses(r, serverVersion)
                  /\ pendingPuts' = pendingPuts
                  /\ caches' = caches
                  /\ CachesMatch(caches', r) = CachesMatch(caches, r) ) ]_vars
    /\ [](\A e \in CurrentEntries \cup pendingPuts :
             /\ e.response.status = 200
             /\ e.response.type = "basic"
             /\ e.request \notin CrossOrigin)

\* A file of another origin was answered with status 200 and is not cached.
C16_Witness ==
    /\ lastResponse.request \in CrossOrigin
    /\ lastResponse.source = "network"
    /\ lastResponse.response[1].status = 200
    /\ lastResponse.response[1].type = "cors"
    /\ pendingPuts = {}
    /\ CachesMatch(caches, lastResponse.request) = <<>>

\* C17: network failure on a miss. When the fetch of a request the cache did
\* not hold fails, the worker responds with nothing: no response of a
\* cache, no page in its place, the request is not sent again, no put is
\* started and the caches stay as they were.
C17_NetworkFailureNoResponse ==
    [][ \A r \in Requests :
          (NetworkSettles(r) /\ ~online) =>
              /\ lastResponse'.request = r
              /\ lastResponse'.source = "none"
              /\ lastResponse'.response = <<>>
              /\ r \notin fetching'
              /\ pendingPuts' = pendingPuts
              /\ caches' = caches ]_vars

\* A file that is not cached was asked for while the network was down, with
\* the page itself in the cache.
C17_Witness ==
    /\ lastResponse.request = "/icon.png"
    /\ lastResponse.source = "none"
    /\ lastResponse.response = <<>>
    /\ ~lastResponse.online
    /\ CachesMatch(caches, "/") # <<>>
    /\ CachesMatch(caches, "/icon.png") = <<>>

\* Every file of the manifest is in the cache named CACHE_NAME.
ManifestCached ==
    \A path \in ManifestPaths : \E e \in CurrentEntries : e.request = path

\* C18: install before interception. A worker for which skipWaiting was
\* called has every file of the manifest in its cache; a request is handed to
\* the worker, and answered by it, only when it is activated and the manifest
\* is cached; a worker whose install failed stays discarded and has
\* intercepted nothing.
C18_InstallBeforeIntercept ==
    /\ [](PastInstall => ManifestCached)
    /\ [][ (fetching' # fetching \/ lastResponse' # lastResponse) =>
             (swState = "activated" /\ ManifestCached) ]_vars
    /\ [][ swState = "redundant" => swState' = "redundant" ]_vars
    /\ [](swState = "redundant" => (lastResponse = NoResponse /\ fetching = {}))

\* The install is over, the worker waits for its activation next to the cache
\* of the earlier version, and no request has reached it.
C18_Witness ==
    /\ swState = "installed"
    /\ ManifestCached
    /\ OldCacheName \in CacheNamesOf(caches)
    /\ lastResponse = NoResponse
    /\ fetching = {}
    /\ serverVersion = 2

\* The names of the caches that were there before the worker, its own aside.
PriorNames == CacheNamesOf(priorCaches) \ {CACHE_NAME}

\* C19: cleanup before control. The step in which the worker claims the pages
\* and becomes active is taken when no deletion is under way and no cache of
\* an earlier version is left; and whenever a request is handed to the worker
\* or answered by it, no cache of an earlier version exists.
C19_CleanupBeforeControl ==
    /\ [][ (swState = "activating" /\ swState' = "activated") =>
             (toDelete = {} /\ CacheNamesOf(caches) \cap PriorNames = {}) ]_vars
    /\ [][ (fetching' # fetching \/ lastResponse' # lastResponse) =>
             ( /\ CacheNamesOf(caches) \cap PriorNames = {}
               /\ CacheNamesOf(caches') \cap PriorNames = {} ) ]_vars

\* The page, which the cache of the earlier version held too, is served as
\* installed by the worker that was activated over two earlier caches.
C19_Witness ==
    /\ swState = "activated"
    /\ PriorNames = {OldCacheName, OtherCacheName}
    /\ lastResponse.request = "/"
    /\ lastResponse.source = "cache"
    /\ lastResponse.response[1].body.version >= 1

\* =================================================================
\* Properties of the note modal (under Spec)
\* =================================================================

\* C20: saveNote stores the note on the task for which the save was asked.
\* In a saveNote that has got to its put, the record to be put has the text
\* that was entered as the note of the task the modal was open for when Save
\* was clicked, and it is that task the handler has written to.
C20_NoteOnRequestedTask ==
    \A h \in Slots :
        (handlers[h].pc = "saving" /\ handlers[h].kind = "note") =>
            /\ handlers[h].target = handlers[h].taskId
            /\ handlers[h].data.tasks[handlers[h].taskId].note = handlers[h].noteText

\* =================================================================
\* Properties of the display and of the days (under Spec)
\* =================================================================

\* The completion flags and the progress count of both records agree.
SameChecklist(a, b) ==
    /\ renderCheckboxes(a) = renderCheckboxes(b)
    /\ updateProgress(a) = updateProgress(b)

\* C21 as stated: in the step in which the last handler in flight ends with
\* its save done, the checklist it renders is today's persisted record.
C21_RenderedIsTodaysRecord ==
    [][ (~AllIdle /\ AllIdle' /\ outcome'.promise = "resolve") =>
          SameChecklist(rendered', loadTodayData(store', clock')) ]_vars

\* C21, amended: once every handler has finished, the checklist rendered last
\* is the persisted record of the date it was loaded for, the date of the day
\* on which the handler that rendered it began; it is today's persisted
\* record whenever that day is still today.
C21_RenderedIsPersisted ==
    AllIdle =>
        /\ SameChecklist(rendered, loadDataForDate(store, rendered.date))
        /\ rendered.date = getTodayDateString(clock) =>
               SameChecklist(rendered, loadTodayData(store, clock))

\* After a day change, two toggles of the new day have ended and the
\* checklist shows both.
C21_Witness ==
    /\ AllIdle
    /\ clock = 1
    /\ rendered.date = getTodayDateString(clock)
    /\ updateProgress(rendered) = 2
    /\ IDBGet(store, rendered.date) = << rendered >>

\* The record after differs from the record before in the field the handler
\* hd was called for, and in nothing else.
FrameOf(hd, before, after) ==
    /\ after.date = before.date
    /\ DOMAIN after.tasks = DOMAIN before.tasks
    /\ \A id \in DOMAIN before.tasks :
          IF id # hd.taskId THEN after.tasks[id] = before.tasks[id]
          ELSE IF hd.kind = "toggle"
               THEN /\ after.tasks[id].completed = hd.isCompleted
                    /\ after.tasks[id].note = before.tasks[id].note
               ELSE /\ after.tasks[id].note = hd.noteText
                    /\ after.tasks[id].completed = before.tasks[id].completed

\* The handler h, which ran alone, ends in this step with its save done.
EndsAlone(h) ==
    /\ h \in alone
    /\ handlers[h].pc = "saving"
    /\ handlers'[h].pc = "idle"
    /\ outcome'.promise = "resolve"

\* C22 as stated: a handler that ran alone has changed, in today's persisted
\* record, the one field it was called for and nothing else.
C22_FrameInTodaysRecord ==
    [][ \A h \in Slots :
          EndsAlone(h) =>
              FrameOf(handlers[h], loadTodayData(store, clock),
                      loadTodayData(store', clock')) ]_vars

\* C22, amended: a handler that ran alone has changed, in the persisted
\* record of the day on which it was called, the one field it was called for
\* (tasks[t].completed set to c by handleTaskToggle(t, c), tasks[t].note set
\* to the trimmed text by saveNote for task t) and nothing else.
C22_FrameInRecordOfItsDay ==
    [][ \A h \in Slots :
          EndsAlone(h) =>
              FrameOf(handlers[h],
                      loadDataForDate(store, handlers[h].dateString),
                      loadDataForDate(store', handlers[h].dateString)) ]_vars

\* A saveNote that ran alone has saved a note on a task of a record that had
\* another task completed.
C22_Witness ==
    \E h \in alone :
        /\ handlers[h].pc = "idle"
        /\ outcome.end = "rendered"
        /\ \E id \in TaskIds : rendered.tasks[id].note # <<>>
        /\ \E id \in TaskIds : rendered.tasks[id].completed
        /\ IDBGet(store, rendered.date) = << rendered >>

\* The store holds for every date what it held, but for the date d.
OnlyChanged(d) ==
    /\ \A e \in AllDates \ {d} : IDBGet(store', e) = IDBGet(store, e)
    /\ DatesOf(store) \subseteq DatesOf(store')

\* C23 as stated: every step leaves the record of every date other than the
\* current day as it was and deletes no record.
C23_OnlyTodayChanges ==
    [][ OnlyChanged(getTodayDateString(clock')) ]_vars

\* C23, amended: every write is the put of a handler, under the date key of
\* the day on which the handler was called. The records of all other dates
\* stay as they were, no record is deleted, and the views (a day opened from
\* the heatmap, the history and progress tabs) write nothing.
C23_OnlyDayOfHandlerChanges ==
    [][ /\ DatesOf(store) \subseteq DatesOf(store')
        /\ store' # store =>
              \E h \in Slots :
                  /\ handlers[h].pc = "saving"
                  /\ handlers'[h].pc = "idle"
                  /\ OnlyChanged(handlers[h].dateString)
                  /\ IDBGet(store', handlers[h].dateString) = << handlers[h].data >>
        /\ lastRead'.op # "none" => store' = store ]_vars

\* The second day has its record, the first day's record is as it was put on
\* the first day, and the first day is being viewed.
C23_Witness ==
    /\ clock = 1
    /\ DatesOf(store) = {D20250101, D20250102}
    /\ lastRead.op = "loadDataForDate"
    /\ lastRead.arg = D20250101
    /\ lastRead.result = lastPut[D20250101]

\* The days of the store on which at least one task is completed.
ActiveDays ==
    { i \in 1..Len(store) : \E t \in TaskIds : store[i].tasks[t].completed }

\* C24: the statistics of every task, over the records the store holds:
\* completedDays + missedDays = totalActiveDays, where the active days are
\* the days with at least one task completed; completedDays is the number of
\* days the task is completed on and is at most totalActiveDays; the success
\* rate lies between 0 and 100 and is 0 when there is no active day.
C24_TaskStatsConsistent ==
    \A taskId \in TaskIds :
        LET stats == renderTaskStats(getAllData(store), taskId)
        IN  /\ stats.completedDays + stats.missedDays = stats.totalActiveDays
            /\ stats.totalActiveDays = Cardinality(ActiveDays)
            /\ stats.completedDays =
                  Cardinality({ i \in 1..Len(store) : store[i].tasks[taskId].completed })
            /\ stats.completedDays <= stats.totalActiveDays
            /\ stats.successRate >= 0
            /\ stats.successRate <= 100
            /\ stats.totalActiveDays = 0 => stats.successRate = 0

\* The Progress tab is opened over an active day and a day that has a note
\* and no task completed: task 1 was done on the one active day, task 2 missed.
C24_Witness ==
    /\ lastRead.op = "getAllData"
    /\ Len(store) = 2
    /\ Cardinality(ActiveDays) = 1
    /\ renderTaskStats(lastRead.result, 1).successRate = 100
    /\ renderTaskStats(lastRead.result, 2).missedDays = 1
    /\ renderTaskStats(lastRead.result, 2).successRate = 0

====
